---- MODULE Spec2Model ----
(***************************************************************************)
(* Model of main.py: the /interactions webhook endpoint of the RanobeDB    *)
(* search bot.  One event loop runs the request handlers                   *)
(* (handle_interactions) and the background tasks                          *)
(* (process_search_command); catalog calls run in worker threads           *)
(* (asyncio.to_thread); the follow-up delivery (requests.post) is a        *)
(* synchronous call made on the event loop.                                *)
(*                                                                         *)
(* Encoding of Python values:                                              *)
(*   - a str is a sequence of pieces (one-character strings, or the        *)
(*     literal parts of an f-string); '' is << >>;                         *)
(*   - a dict is a record (a function on its keys); a list is a sequence;  *)
(*   - None is the record None.                                            *)
(***************************************************************************)
EXTENDS Integers, Sequences, FiniteSets, TLC

(* ------------------------------------------------------------------ *)
(* Bounds of the model                                                 *)
(* ------------------------------------------------------------------ *)

\* number of inbound requests in a run
NumReq == 2

Req == 1..NumReq

(* ------------------------------------------------------------------ *)
(* Python helpers                                                      *)
(* ------------------------------------------------------------------ *)

None == [None |-> TRUE]

EmptyDict == [k \in {} |-> << >>]

\* d.get(k, default)
Get(d, k, default) == IF k \in DOMAIN d THEN d[k] ELSE default

\* s[:n]
Take(s, n) == SubSeq(s, 1, IF Len(s) < n THEN Len(s) ELSE n)

DigitChars == <<"0", "1", "2", "3", "4", "5", "6", "7", "8", "9">>

IsDigit(c) == \E d \in 1..10 : DigitChars[d] = c

DigitVal(c) == (CHOOSE d \in 1..10 : DigitChars[d] = c) - 1

\* str(n) for an int n >= 0: its decimal digits
RECURSIVE str(_)
str(n) == IF n < 10 THEN <<DigitChars[n + 1]>>
          ELSE Append(str(n \div 10), DigitChars[(n % 10) + 1])

\* int(s) succeeds on a non-empty string of decimal digits and raises
\* ValueError on the other strings the model draws
IsIntLiteral(s) == Len(s) > 0 /\ \A i \in 1..Len(s) : IsDigit(s[i])

RECURSIVE int(_)
int(s) == IF Len(s) = 1 THEN DigitVal(s[1])
          ELSE 10 * int(SubSeq(s, 1, Len(s) - 1)) + DigitVal(s[Len(s)])

IsSpace(c) == c = " "

\* s.strip()
RECURSIVE strip(_)
strip(s) == IF s = << >> THEN s
            ELSE IF IsSpace(s[1]) THEN strip(Tail(s))
            ELSE IF IsSpace(s[Len(s)]) THEN strip(SubSeq(s, 1, Len(s) - 1))
            ELSE s

UpperChar(c) == CASE c = "j" -> "J"
                  [] c = "a" -> "A"
                  [] c = "e" -> "E"
                  [] c = "n" -> "N"
                  [] OTHER -> c

\* s.upper()
upper(s) == [i \in 1..Len(s) |-> UpperChar(s[i])]

(* ------------------------------------------------------------------ *)
(* Configuration (lines 13-16) and the platform's tagged integers      *)
(* ------------------------------------------------------------------ *)

PUBLIC_KEY == "discord-public-key"
BOT_TOKEN == "bot-token"
APPLICATION_ID == "app-id"

\* discord_interactions.InteractionType
PING == 1
APPLICATION_COMMAND == 2
MESSAGE_COMPONENT == 3
AUTOCOMPLETE == 4

\* discord_interactions.InteractionResponseType
PONG == 1
DEFERRED_CHANNEL_MESSAGE_WITH_SOURCE == 5
DEFERRED_UPDATE_MESSAGE == 6
UPDATE_MESSAGE == 7

(* ------------------------------------------------------------------ *)
(* Signature Verifier                                                  *)
(* ------------------------------------------------------------------ *)

\* An Ed25519 signature, symbolically: who signed which message.
Sign(signer, timestamp, body) ==
    [signer |-> signer, msg |-> <<timestamp, body>>]

\* the key pair: the public key verifies what its owner signed
KeyOwner(public_key) ==
    IF public_key = "discord-public-key" THEN "discord" ELSE "nobody"

\* the check of who signed lost: any signature over the message passes
verify_keyAnySigner(body, signature, timestamp, public_key) ==
    signature.msg = <<timestamp, body>>

\* discord_interactions.verify_key(body, signature, timestamp, public_key)
verify_key(body, signature, timestamp, public_key) ==
    /\ signature.signer = KeyOwner(public_key)
    /\ signature.msg = <<timestamp, body>>

(* ------------------------------------------------------------------ *)
(* The remote catalog (ranobedb.org), an external collaborator         *)
(* ------------------------------------------------------------------ *)

\* the catalog's record ids, in release-date order
CatalogIds == <<10, 11, 12>>

TitleOf(id) == <<"V", "o", "l", " ">> \o str(id)

\* the summary record a search returns for a book
Summary(id) ==
    IF id = 12 THEN [id |-> id, title |-> TitleOf(id)]
    ELSE [id |-> id, title |-> TitleOf(id), lang |-> <<"j", "a">>]

\* the full record a fetch returns for a book
Full(id) ==
    CASE id = 10 -> Summary(id) @@
                    [description |-> <<"A", " ", "b">>,
                     image |-> [filename |-> <<"c", "1", "0", ".", "j", "p", "g">>]]
      [] id = 11 -> Summary(id) @@ [description |-> << >>, image |-> None]
      [] OTHER -> Summary(id) @@ [image |-> [id |-> 7]]

InCatalog(id) == \E i \in 1..Len(CatalogIds) : CatalogIds[i] = id

\* the ids of the books matching a query, in release-date order
MatchIds(query) ==
    CASE query = <<"isekai">> -> CatalogIds
      [] query = <<"slime">> -> <<11>>
      [] query = <<"re">> -> <<10, 12>>
      [] OTHER -> << >>

Matches(query) == [i \in 1..Len(MatchIds(query)) |-> Summary(MatchIds(query)[i])]

\* what requests.get can produce: an exception (timeout, connection error,
\* error status) or a JSON document
Failure == [error |-> TRUE]
Json(doc) == [error |-> FALSE, json |-> doc]
Pending == [pending |-> TRUE]

\* replies of GET /api/v0/books?q=query&limit=lim
SearchReplies(query, lim) ==
    {Failure, Json([books |-> Take(Matches(query), lim)])}

\* replies of GET /api/v0/book/{book_id}
FetchReplies(book_id) ==
    IF InCatalog(book_id)
    THEN {Failure, Json([book |-> Full(book_id)])}
    ELSE {Failure, Json([message |-> <<"not found">>])}

(* ------------------------------------------------------------------ *)
(* Catalog Client and Presentation Builder (lines 25-73)               *)
(* ------------------------------------------------------------------ *)

\* default of search_ranobedb's limit parameter
limit == 5

\* search_ranobedb(query, limit), given the reply to its requests.get
search_ranobedb(query, lim, reply) ==
    IF reply.error THEN << >> ELSE Get(reply.json, "books", << >>)

\* get_book_details(book_id), given the reply to its requests.get
get_book_details(book_id, reply) ==
    IF reply.error THEN None ELSE reply.json

max_len == 1024

\* the cut made one character early: >= for >
EmbedDescriptionAtBudget(book_data) ==
    IF "description" \in DOMAIN book_data /\ book_data.description # << >>
    THEN [description |->
            IF Len(book_data.description) >= max_len
            THEN strip(Take(book_data.description, max_len)) \o <<"...">>
            ELSE book_data.description]
    ELSE EmptyDict

\* the description entry create_book_embed adds
EmbedDescription(book_data) ==
    IF "description" \in DOMAIN book_data /\ book_data.description # << >>
    THEN [description |->
            IF Len(book_data.description) > max_len
            THEN strip(Take(book_data.description, max_len)) \o <<"...">>
            ELSE book_data.description]
    ELSE EmptyDict

\* the image entry create_book_embed builds
EmbedImage(book_data) ==
    IF /\ "image" \in DOMAIN book_data
       /\ book_data.image # None
       /\ "filename" \in DOMAIN book_data.image
       /\ book_data.image.filename # << >>
    THEN [url |-> <<"https://images.ranobedb.org/">> \o book_data.image.filename]
    ELSE EmptyDict

create_book_embed(book_data) ==
    [title |-> Get(book_data, "title", <<"Unknown Title">>),
     color |-> 39423,
     url |-> <<"https://ranobedb.org/book/">> \o
             (IF "id" \in DOMAIN book_data THEN str(book_data.id) ELSE << >>),
     fields |-> << >>,
     image |-> EmbedImage(book_data),
     footer |-> [text |-> <<"Powered by RanobeDB">>]]
    @@ EmbedDescription(book_data)

\* book_details and 'book' in book_details
HasBook(book_details) == book_details # None /\ "book" \in DOMAIN book_details

(* ------------------------------------------------------------------ *)
(* Inbound requests                                                    *)
(* ------------------------------------------------------------------ *)

\* the per-interaction token the platform issues
InteractionToken(r) == <<"t", "o", "k">> \o str(r)

Queries == {<<"isekai">>, <<"slime">>, <<"re">>, <<"zzz">>}

\* values a select menu submission can carry
SelectValues == {<<"1", "0">>, <<"1", "2">>, <<"9", "9">>, <<"a", "b", "c">>}

QueryOption(q) == [name |-> <<"query">>, value |-> q]

\* the JSON bodies the model draws for request r
Bodies(r) ==
    LET tk == InteractionToken(r) IN
    {[token |-> tk]} \cup
    {[type |-> t, token |-> tk] : t \in {PING, AUTOCOMPLETE}} \cup
    {[type |-> APPLICATION_COMMAND, token |-> tk,
      data |-> [name |-> <<"lnsearch">>, options |-> <<QueryOption(q)>>]] :
        q \in Queries} \cup
    {[type |-> APPLICATION_COMMAND, token |-> tk, data |-> [name |-> <<"lnsearch">>]]} \cup
    {[type |-> MESSAGE_COMPONENT, token |-> tk,
      data |-> [custom_id |-> <<"select_book">>, values |-> <<v>>]] :
        v \in SelectValues} \cup
    {[type |-> MESSAGE_COMPONENT, token |-> tk, data |-> [custom_id |-> <<"select_book">>]]}

SigHeader == "x-signature-ed25519"
TsHeader == "x-signature-timestamp"

Now == <<"1", "7", "0", "0">>

\* the header sets the model draws for a body: correctly signed, signed by
\* someone else, signed for another timestamp, and with one of the two
\* headers missing
HeaderSets(body) ==
    {(SigHeader :> Sign(p[1], p[2], body)) @@ (TsHeader :> Now) :
        p \in {<<"discord", Now>>, <<"attacker", Now>>, <<"discord", <<"0">>>>}} \cup
    {(SigHeader :> Sign("discord", Now, body)), (TsHeader :> Now)}

Inbound(r) ==
    UNION {{[headers |-> h, body |-> b] : h \in HeaderSets(b)} : b \in Bodies(r)}

NoRequest == [headers |-> EmptyDict, body |-> EmptyDict]

(* ------------------------------------------------------------------ *)
(* Responses and follow-up payloads                                    *)
(* ------------------------------------------------------------------ *)

NoResponse == [status_code |-> 0]

\* fastapi.Response(content=..., status_code=...)
Response(content, status_code) == [status_code |-> status_code, content |-> content]

\* fastapi.responses.JSONResponse(content)
JSONResponse(content) == [status_code |-> 200, json |-> content]

\* what the framework answers when the handler raises
InternalServerError == Response(<<"Internal Server Error">>, 500)

\* the gate with the presence checks lost: a request lacking a header
\* passes it
VerifiedUnlessAbsent(rq) ==
    (SigHeader \in DOMAIN rq.headers /\ TsHeader \in DOMAIN rq.headers)
        => verify_key(rq.body, rq.headers[SigHeader], rq.headers[TsHeader], PUBLIC_KEY)

\* line 125: the verification gate
Verified(rq) ==
    /\ SigHeader \in DOMAIN rq.headers
    /\ TsHeader \in DOMAIN rq.headers
    /\ verify_key(rq.body, rq.headers[SigHeader], rq.headers[TsHeader], PUBLIC_KEY)

\* interaction['data']['options'][0]['value'] does not raise
HasQuery(interaction) ==
    /\ "data" \in DOMAIN interaction
    /\ "options" \in DOMAIN interaction.data
    /\ Len(interaction.data.options) > 0
    /\ "value" \in DOMAIN interaction.data.options[1]

QueryOf(interaction) == interaction.data.options[1].value

\* int(interaction['data']['values'][0]) does not raise
HasBookId(interaction) ==
    /\ "data" \in DOMAIN interaction
    /\ "values" \in DOMAIN interaction.data
    /\ Len(interaction.data.values) > 0
    /\ IsIntLiteral(interaction.data.values[1])

\* the selected string indexed instead of the list: int(values[0][0])
BookIdOfFirstChar(interaction) == int(<<interaction.data.values[1][1]>>)

BookIdOf(interaction) == int(interaction.data.values[1])

\* the callback address kept in one place for all interactions
followup_urlShared(interaction) ==
    <<"https://discord.com/api/v10/webhooks/", APPLICATION_ID, "/">> \o InteractionToken(1)

\* line 81
followup_url(interaction) ==
    <<"https://discord.com/api/v10/webhooks/", APPLICATION_ID, "/">> \o interaction.token

\* the apology without the query
NoMatchDataGeneric(query) ==
    [content |-> <<"Sorry, I couldn't find any books matching your search.">>]

\* line 86
NoMatchData(query) ==
    [content |-> <<"Sorry, I couldn't find any books matching **">> \o query \o <<"**.">>]

\* the wrong key tested ('books' for 'book'): never a card
DetailsDataNoCard(book_details) ==
    [content |-> <<"Sorry, I couldn't retrieve the details for that book.">>]

\* lines 93-97
DetailsData(book_details) ==
    IF HasBook(book_details)
    THEN [embeds |-> <<create_book_embed(book_details.book)>>]
    ELSE [content |-> <<"Sorry, I couldn't retrieve the details for that book.">>]

\* line 101
SelectOption(book) ==
    [label |-> Take(Get(book, "title", <<"Unknown Title">>), 100),
     value |-> str(book.id),
     description |-> <<"Language: ">> \o upper(Get(book, "lang", <<"?">>))]

\* the dropdown valued by position, as enumerate(books) would give
SelectMenuDataByPosition(books) ==
    [content |-> <<"I found several books. Please select one from the list:">>,
     components |-> <<[type |-> 1,
                       components |-> <<[type |-> 3,
                                         custom_id |-> <<"select_book">>,
                                         options |-> [i \in 1..Len(books) |->
                                                        [SelectOption(books[i]) EXCEPT
                                                            !.value = str(i - 1)]],
                                         placeholder |-> <<"Choose a book">>]>>]>>]

\* lines 100-107
SelectMenuData(books) ==
    [content |-> <<"I found several books. Please select one from the list:">>,
     components |-> <<[type |-> 1,
                       components |-> <<[type |-> 3,
                                         custom_id |-> <<"select_book">>,
                                         options |-> [i \in 1..Len(books) |->
                                                        SelectOption(books[i])],
                                         placeholder |-> <<"Choose a book">>]>>]>>]

\* the failure answer leaving the dropdown in place
SelectResponseKeepsMenu(book_details) ==
    IF HasBook(book_details)
    THEN JSONResponse([type |-> UPDATE_MESSAGE,
                       data |-> [content |-> << >>,
                                 embeds |-> <<create_book_embed(book_details.book)>>,
                                 components |-> << >>]])
    ELSE JSONResponse([type |-> UPDATE_MESSAGE,
                       data |-> [content |->
                                   <<"Sorry, I couldn't retrieve details for that selection.">>]])

\* the failed fetch passed on as an HTTP error status
SelectResponseBadGateway(book_details) ==
    IF HasBook(book_details)
    THEN JSONResponse([type |-> UPDATE_MESSAGE,
                       data |-> [content |-> << >>,
                                 embeds |-> <<create_book_embed(book_details.book)>>,
                                 components |-> << >>]])
    ELSE Response(<<"Bad Gateway">>, 502)

\* lines 142-157
SelectResponse(book_details) ==
    IF HasBook(book_details)
    THEN JSONResponse([type |-> UPDATE_MESSAGE,
                       data |-> [content |-> << >>,
                                 embeds |-> <<create_book_embed(book_details.book)>>,
                                 components |-> << >>]])
    ELSE JSONResponse([type |-> UPDATE_MESSAGE,
                       data |-> [content |->
                                   <<"Sorry, I couldn't retrieve details for that selection.">>,
                                 components |-> << >>]])

\* lines 109-112: the outbound call of the Follow-up Sender
Post(interaction, response_data) ==
    [url |-> followup_url(interaction),
     json |-> response_data,
     headers |-> [Authorization |-> <<"Bot ", BOT_TOKEN>>],
     outcome |-> "pending"]

(* ------------------------------------------------------------------ *)
(* State                                                               *)
(* ------------------------------------------------------------------ *)

VARIABLES
    req,       \* req[r]: the inbound request r, once it has arrived
    hpc,       \* hpc[r]: where handle_interactions is for request r
    resp,      \* resp[r]: the HTTP response returned for request r
    task,      \* task[r]: where the task created for request r is
    calls,     \* calls[r]: the catalog calls made for request r, with their replies
    posts,     \* posts[r]: the follow-up deliveries attempted for request r
    loopBusy,  \* the request whose synchronous post holds the event loop, or 0
    book_data, \* the record handed to create_book_embed when it is run alone
    embed      \* the display card create_book_embed returned for book_data

vars == <<req, hpc, resp, task, calls, posts, loopBusy, book_data, embed>>

\* no record handed over, no card built
NoBook == [id |-> 0]
NoEmbed == [built |-> FALSE]

Init ==
    /\ req = [r \in Req |-> NoRequest]
    /\ hpc = [r \in Req |-> "idle"]
    /\ resp = [r \in Req |-> NoResponse]
    /\ task = [r \in Req |-> "none"]
    /\ calls = [r \in Req |-> << >>]
    /\ posts = [r \in Req |-> << >>]
    /\ loopBusy = 0
    /\ book_data = NoBook
    /\ embed = NoEmbed

\* the catalog call in flight for request r, and its reply once it is there
LastCall(r) == calls[r][Len(calls[r])]

\* the timeout=10 of the two requests.get calls (lines 30 and 42); the
\* requests.post of line 112 is given none
timeout == 10

SearchCall(query) ==
    [fn |-> "search_ranobedb", query |-> query, timeout |-> timeout, reply |-> Pending]
FetchCall(book_id) ==
    [fn |-> "get_book_details", book_id |-> book_id, timeout |-> timeout, reply |-> Pending]

\* asyncio.to_thread(search_ranobedb, query) / (get_book_details, book_id):
\* the call starts in a worker thread
ToThread(r, call) == calls' = [calls EXCEPT ![r] = Append(@, call)]

\* the locals of the coroutine that awaited the call
books(r) == search_ranobedb(LastCall(r).query, limit, LastCall(r).reply)
book_details(r) == get_book_details(LastCall(r).book_id, LastCall(r).reply)

(* ------------------------------------------------------------------ *)
(* handle_interactions (lines 119-159)                                 *)
(* ------------------------------------------------------------------ *)

\* The server can accept request r: requests are numbered in arrival order,
\* and the handler needs the event loop.
CanAccept(r) ==
    /\ hpc[r] = "idle"
    /\ loopBusy = 0
    /\ r > 1 => hpc[r - 1] # "idle"

\* Request rq arrives as request r, and the handler runs to its first
\* suspension or to its return.
Accept(r, rq) == req' = [req EXCEPT ![r] = rq]

Return(r, response) ==
    /\ resp' = [resp EXCEPT ![r] = response]
    /\ hpc' = [hpc EXCEPT ![r] = "done"]

\* lines 125-126
Unauthorized(r) ==
    /\ CanAccept(r)
    /\ \E rq \in Inbound(r) :
        /\ Accept(r, rq)
        /\ ~Verified(rq)
        /\ Return(r, Response(<<"Bad request signature">>, 401))
        /\ UNCHANGED <<book_data, embed, task, calls, posts, loopBusy>>

\* line 129 raises KeyError: the body has no "type"
TypeError(r) ==
    /\ CanAccept(r)
    /\ \E rq \in Inbound(r) :
        /\ Accept(r, rq)
        /\ Verified(rq)
        /\ "type" \notin DOMAIN rq.body
        /\ Return(r, InternalServerError)
        /\ UNCHANGED <<book_data, embed, task, calls, posts, loopBusy>>

\* the Ping branch falling through into the Command branch
PingFallsThrough(r) ==
    /\ CanAccept(r)
    /\ \E rq \in Inbound(r) :
        /\ Accept(r, rq)
        /\ Verified(rq)
        /\ "type" \in DOMAIN rq.body /\ rq.body.type = PING
        /\ task' = [task EXCEPT ![r] = "scheduled"]
        /\ Return(r, JSONResponse([type |-> DEFERRED_CHANNEL_MESSAGE_WITH_SOURCE]))
        /\ UNCHANGED <<book_data, embed, calls, posts, loopBusy>>

\* lines 131-132
Ping(r) ==
    /\ CanAccept(r)
    /\ \E rq \in Inbound(r) :
        /\ Accept(r, rq)
        /\ Verified(rq)
        /\ "type" \in DOMAIN rq.body /\ rq.body.type = PING
        /\ Return(r, JSONResponse([type |-> PONG]))
        /\ UNCHANGED <<book_data, embed, task, calls, posts, loopBusy>>

\* the handler awaiting process_search_command instead of handing it off:
\* nothing is returned while the continuation runs
CommandAwaited(r) ==
    /\ CanAccept(r)
    /\ \E rq \in Inbound(r) :
        /\ Accept(r, rq)
        /\ Verified(rq)
        /\ "type" \in DOMAIN rq.body /\ rq.body.type = APPLICATION_COMMAND
        /\ task' = [task EXCEPT ![r] = "scheduled"]
        /\ hpc' = [hpc EXCEPT ![r] = "await"]
        /\ UNCHANGED <<book_data, embed, resp, calls, posts, loopBusy>>

\* lines 134-136: create_task, then return without awaiting the task
Command(r) ==
    /\ CanAccept(r)
    /\ \E rq \in Inbound(r) :
        /\ Accept(r, rq)
        /\ Verified(rq)
        /\ "type" \in DOMAIN rq.body /\ rq.body.type = APPLICATION_COMMAND
        /\ task' = [task EXCEPT ![r] = "scheduled"]
        /\ Return(r, JSONResponse([type |-> DEFERRED_CHANNEL_MESSAGE_WITH_SOURCE]))
        /\ UNCHANGED <<book_data, embed, calls, posts, loopBusy>>

\* lines 138-140: the handler itself starts the fetch and awaits it
Select(r) ==
    /\ CanAccept(r)
    /\ \E rq \in Inbound(r) :
        /\ Accept(r, rq)
        /\ Verified(rq)
        /\ "type" \in DOMAIN rq.body /\ rq.body.type = MESSAGE_COMPONENT
        /\ HasBookId(rq.body)
        /\ ToThread(r, FetchCall(BookIdOf(rq.body)))
        /\ hpc' = [hpc EXCEPT ![r] = "fetch"]
        /\ UNCHANGED <<book_data, embed, resp, task, posts, loopBusy>>

\* line 139 raises KeyError, IndexError or ValueError
SelectError(r) ==
    /\ CanAccept(r)
    /\ \E rq \in Inbound(r) :
        /\ Accept(r, rq)
        /\ Verified(rq)
        /\ "type" \in DOMAIN rq.body /\ rq.body.type = MESSAGE_COMPONENT
        /\ ~HasBookId(rq.body)
        /\ Return(r, InternalServerError)
        /\ UNCHANGED <<book_data, embed, task, calls, posts, loopBusy>>

\* lines 142-157: the handler resumes with book_details
SelectReturn(r) ==
    /\ hpc[r] = "fetch"
    /\ loopBusy = 0
    /\ LastCall(r).reply # Pending
    /\ Return(r, SelectResponse(book_details(r)))
    /\ UNCHANGED <<book_data, embed, req, task, calls, posts, loopBusy>>

\* the fall-through answering as if the kind were a Command
NotFoundAsCommand(r) ==
    /\ CanAccept(r)
    /\ \E rq \in Inbound(r) :
        /\ Accept(r, rq)
        /\ Verified(rq)
        /\ "type" \in DOMAIN rq.body
        /\ rq.body.type \notin {PING, APPLICATION_COMMAND, MESSAGE_COMPONENT}
        /\ task' = [task EXCEPT ![r] = "scheduled"]
        /\ Return(r, JSONResponse([type |-> DEFERRED_CHANNEL_MESSAGE_WITH_SOURCE]))
        /\ UNCHANGED <<book_data, embed, calls, posts, loopBusy>>

\* line 159
NotFound(r) ==
    /\ CanAccept(r)
    /\ \E rq \in Inbound(r) :
        /\ Accept(r, rq)
        /\ Verified(rq)
        /\ "type" \in DOMAIN rq.body
        /\ rq.body.type \notin {PING, APPLICATION_COMMAND, MESSAGE_COMPONENT}
        /\ Return(r, Response(<< >>, 404))
        /\ UNCHANGED <<book_data, embed, task, calls, posts, loopBusy>>

(* ------------------------------------------------------------------ *)
(* Worker threads: the catalog's replies                               *)
(* ------------------------------------------------------------------ *)

Reply(r, reply) ==
    /\ calls' = [calls EXCEPT ![r][Len(calls[r])].reply = reply]
    /\ UNCHANGED <<book_data, embed, req, hpc, resp, task, posts, loopBusy>>

\* lines 30-36: requests.get of search_ranobedb returns or raises
SearchReturn(r) ==
    /\ calls[r] # << >>
    /\ LastCall(r).fn = "search_ranobedb"
    /\ LastCall(r).reply = Pending
    /\ \E reply \in SearchReplies(LastCall(r).query, limit) : Reply(r, reply)

\* lines 42-47: requests.get of get_book_details returns or raises
DetailsReturn(r) ==
    /\ calls[r] # << >>
    /\ LastCall(r).fn = "get_book_details"
    /\ LastCall(r).reply = Pending
    /\ \E reply \in FetchReplies(LastCall(r).book_id) : Reply(r, reply)

(* ------------------------------------------------------------------ *)
(* process_search_command (lines 76-115)                               *)
(* ------------------------------------------------------------------ *)

\* lines 109-112: requests.post is called on the event loop, which it holds
\* until it returns or raises
StartPost(r, response_data) ==
    /\ posts' = [posts EXCEPT ![r] = Append(@, Post(req[r].body, response_data))]
    /\ task' = [task EXCEPT ![r] = "post"]
    /\ loopBusy' = r

\* lines 78-80: the task starts and awaits the search
TaskStart(r) ==
    /\ task[r] = "scheduled"
    /\ loopBusy = 0
    /\ HasQuery(req[r].body)
    /\ ToThread(r, SearchCall(QueryOf(req[r].body)))
    /\ task' = [task EXCEPT ![r] = "search"]
    /\ UNCHANGED <<book_data, embed, req, hpc, resp, posts, loopBusy>>

\* line 79 raises KeyError or IndexError: the task ends with an exception
\* nobody retrieves
TaskError(r) ==
    /\ task[r] = "scheduled"
    /\ loopBusy = 0
    /\ ~HasQuery(req[r].body)
    /\ task' = [task EXCEPT ![r] = "failed"]
    /\ UNCHANGED <<book_data, embed, req, hpc, resp, calls, posts, loopBusy>>

\* an empty result answered by searching again
NoMatchRetries(r) ==
    /\ task[r] = "search"
    /\ loopBusy = 0
    /\ LastCall(r).reply # Pending
    /\ books(r) = << >>
    /\ Len(calls[r]) < 3
    /\ ToThread(r, SearchCall(LastCall(r).query))
    /\ UNCHANGED <<book_data, embed, req, hpc, resp, task, posts, loopBusy>>

\* lines 81-86 and 109-112: no books
NoMatch(r) ==
    /\ task[r] = "search"
    /\ loopBusy = 0
    /\ LastCall(r).reply # Pending
    /\ books(r) = << >>
    /\ StartPost(r, NoMatchData(LastCall(r).query))
    /\ UNCHANGED <<book_data, embed, req, hpc, resp, calls>>

\* lines 87-91: one book, the task awaits the fetch of its full record
SingleMatch(r) ==
    /\ task[r] = "search"
    /\ loopBusy = 0
    /\ LastCall(r).reply # Pending
    /\ Len(books(r)) = 1
    /\ ToThread(r, FetchCall(books(r)[1].id))
    /\ task' = [task EXCEPT ![r] = "fetch"]
    /\ UNCHANGED <<book_data, embed, req, hpc, resp, posts, loopBusy>>

\* lines 93-97 and 109-112: the task resumes with book_details
SingleDetails(r) ==
    /\ task[r] = "fetch"
    /\ loopBusy = 0
    /\ LastCall(r).reply # Pending
    /\ StartPost(r, DetailsData(book_details(r)))
    /\ UNCHANGED <<book_data, embed, req, hpc, resp, calls>>

\* lines 98-112: several books
ManyMatches(r) ==
    /\ task[r] = "search"
    /\ loopBusy = 0
    /\ LastCall(r).reply # Pending
    /\ Len(books(r)) > 1
    /\ StartPost(r, SelectMenuData(books(r)))
    /\ UNCHANGED <<book_data, embed, req, hpc, resp, calls>>

\* lines 112-115: requests.post returns, or raises and the task logs it
PostReturn(r) ==
    /\ task[r] = "post"
    /\ loopBusy = r
    /\ \E outcome \in {"sent", "error"} :
          posts' = [posts EXCEPT ![r][Len(posts[r])].outcome = outcome]
    /\ task' = [task EXCEPT ![r] = "done"]
    /\ loopBusy' = 0
    /\ UNCHANGED <<book_data, embed, req, hpc, resp, calls>>

(* ------------------------------------------------------------------ *)
(* Specification                                                       *)
(* ------------------------------------------------------------------ *)

Next ==
    \E r \in Req :
        \/ Unauthorized(r)
        \/ TypeError(r)
        \/ Ping(r)
        \/ Command(r)
        \/ Select(r)
        \/ SelectError(r)
        \/ SelectReturn(r)
        \/ NotFound(r)
        \/ SearchReturn(r)
        \/ DetailsReturn(r)
        \/ TaskStart(r)
        \/ TaskError(r)
        \/ NoMatch(r)
        \/ SingleMatch(r)
        \/ SingleDetails(r)
        \/ ManyMatches(r)
        \/ PostReturn(r)

Spec == Init /\ [][Next]_vars

\* a step of the coroutine of request r that the event loop can run
LoopStep(r) ==
    \/ SelectReturn(r)
    \/ TaskStart(r)
    \/ TaskError(r)
    \/ NoMatch(r)
    \/ SingleMatch(r)
    \/ SingleDetails(r)
    \/ ManyMatches(r)

\* the return of an outbound call of request r that was given a timeout:
\* such a call returns or raises within its timeout
CappedReturn(r) ==
    \/ (SearchReturn(r) \/ DetailsReturn(r)) /\ "timeout" \in DOMAIN LastCall(r)
    \/ PostReturn(r) /\ "timeout" \in DOMAIN posts[r][Len(posts[r])]

\* The event loop runs every coroutine that is ready, and every outbound
\* call with a timeout ends.  Nothing makes a call without timeout end.
FairSpec ==
    Spec /\ \A r \in Req : WF_vars(LoopStep(r)) /\ WF_vars(CappedReturn(r))

(* ------------------------------------------------------------------ *)
(* create_book_embed run alone on records with long descriptions       *)
(* ------------------------------------------------------------------ *)

\* how far beyond max_len the descriptions drawn go
MaxOver == 2

\* a text of n characters with blanks at the positions in blanks
Text(n, blanks) == [i \in 1..n |-> IF i \in blanks THEN " " ELSE "x"]

\* the descriptions drawn: short ones, and ones around max_len, with blanks
\* at their start and around the cut
Descriptions ==
    {Text(n, blanks) :
        n \in {0, 1, 2} \cup ((max_len - 2)..(max_len + MaxOver)),
        blanks \in SUBSET {1, 2, max_len - 1, max_len, max_len + 1}}

\* the records drawn: record 12, which has no description, and record 10
\* with each of the descriptions
EmbedInputs ==
    {Full(12)} \cup {[Full(10) EXCEPT !.description = d] : d \in Descriptions}

EmbedInit ==
    /\ req = [r \in Req |-> NoRequest]
    /\ hpc = [r \in Req |-> "idle"]
    /\ resp = [r \in Req |-> NoResponse]
    /\ task = [r \in Req |-> "none"]
    /\ calls = [r \in Req |-> << >>]
    /\ posts = [r \in Req |-> << >>]
    /\ loopBusy = 0
    /\ book_data \in EmbedInputs
    /\ embed = NoEmbed

\* lines 49-73
Build ==
    /\ embed = NoEmbed
    /\ embed' = create_book_embed(book_data)
    /\ UNCHANGED <<req, hpc, resp, task, calls, posts, loopBusy, book_data>>

EmbedSpec == EmbedInit /\ [][Build]_vars

(* ------------------------------------------------------------------ *)
(* Properties                                                          *)
(* ------------------------------------------------------------------ *)

Arrived(r) == hpc[r] # "idle"

\* request r carries both headers and a signature of the platform over its
\* own timestamp and body
Authentic(r) ==
    /\ Arrived(r)
    /\ DOMAIN req[r].headers = {SigHeader, TsHeader}
    /\ req[r].headers[SigHeader] = Sign("discord", req[r].headers[TsHeader], req[r].body)

\* request r is an authentic interaction of kind t
IsKind(r, t) ==
    /\ Authentic(r)
    /\ "type" \in DOMAIN req[r].body
    /\ req[r].body.type = t

Unauthorized401 == Response(<<"Bad request signature">>, 401)

\* C1: a request that lacks the signature header or the timestamp header is
\* answered 401, whatever its body is.
C1_MissingHeaderIs401 ==
    \A r \in Req :
        (Arrived(r) /\ DOMAIN req[r].headers # {SigHeader, TsHeader})
            => /\ hpc[r] = "done"
               /\ resp[r] = Unauthorized401

\* a Command body without its signature header, and a Ping body without its
\* timestamp header, both answered 401
C1_Witness ==
    \E r1, r2 \in Req :
        /\ hpc[r1] = "done" /\ hpc[r2] = "done"
        /\ DOMAIN req[r1].headers = {TsHeader}
        /\ "type" \in DOMAIN req[r1].body
        /\ req[r1].body.type = APPLICATION_COMMAND
        /\ "options" \in DOMAIN req[r1].body.data
        /\ DOMAIN req[r2].headers = {SigHeader}
        /\ "type" \in DOMAIN req[r2].body
        /\ req[r2].body.type = PING
        /\ resp[r1] = Unauthorized401 /\ resp[r2] = Unauthorized401

\* a catalog call of request r has completed
SomeCallReturned(r) == \E i \in 1..Len(calls[r]) : calls[r][i].reply # Pending

\* C2: an authentic Command is answered with the deferred-channel-message
\* tag as soon as it is accepted, and a continuation exists, runs or has a
\* completed catalog call only for a request already answered with that tag.
C2_CommandDeferredFirst ==
    \A r \in Req :
        /\ IsKind(r, APPLICATION_COMMAND)
              => hpc[r] = "done" /\ resp[r] = JSONResponse([type |-> 5])
        /\ (task[r] # "none" \/ (IsKind(r, APPLICATION_COMMAND) /\ SomeCallReturned(r)))
              => resp[r] = JSONResponse([type |-> 5])

\* a Command whose search has returned after the deferred answer
C2_Witness ==
    \E r \in Req :
        /\ IsKind(r, APPLICATION_COMMAND)
        /\ resp[r] = JSONResponse([type |-> 5])
        /\ task[r] = "search"
        /\ SomeCallReturned(r)

\* C3: no catalog call is begun for a request before its HTTP response is
\* produced.
C3_ResponseBeforeCatalogCall ==
    \A r \in Req : calls[r] # << >> => resp[r] # NoResponse

\* the selected value of request r parses as a record id
WellFormedSelect(r) ==
    /\ IsKind(r, MESSAGE_COMPONENT)
    /\ "values" \in DOMAIN req[r].body.data
    /\ \A i \in 1..Len(req[r].body.data.values[1]) :
          req[r].body.data.values[1][i] \in {"0", "1", "2", "3", "4", "5", "6", "7", "8", "9"}

\* C4: an authentic ComponentSelect is answered with the deferred-update tag
\* and nothing else, and its detail fetch is left to a background task.
C4_SelectDeferred ==
    \A r \in Req :
        WellFormedSelect(r)
            => /\ resp[r] = JSONResponse([type |-> 6])
               /\ task[r] # "none"

\* C5: an authentic Ping is answered Pong at once; no task is created for it,
\* no catalog call and no follow-up is made.
C5_PingPong ==
    \A r \in Req :
        IsKind(r, PING)
            => /\ hpc[r] = "done"
               /\ resp[r] = JSONResponse([type |-> 1])
               /\ task[r] = "none"
               /\ calls[r] = << >>
               /\ posts[r] = << >>

\* a Ping answered while the continuation of a Command is in flight
C5_Witness ==
    \E r1, r2 \in Req :
        /\ IsKind(r1, PING) /\ resp[r1] = JSONResponse([type |-> 1])
        /\ IsKind(r2, APPLICATION_COMMAND) /\ task[r2] \in {"search", "fetch", "done"}

\* the search of Command r has returned: its reply
SearchReturned(r) ==
    /\ IsKind(r, APPLICATION_COMMAND)
    /\ calls[r] # << >>
    /\ calls[r][1].fn = "search_ranobedb"
    /\ calls[r][1].reply # Pending

\* the records the search of Command r returned (none when it failed)
Found(r) ==
    IF calls[r][1].reply = Failure THEN << >> ELSE calls[r][1].reply.json.books

\* the continuation of request r has built its follow-up and begun to send it
FollowedUp(r) == task[r] \in {"post", "done"}

\* the follow-up payload of request r
FollowUp(r) == posts[r][1].json

\* the options of the dropdown in a payload
OptionsOf(payload) == payload.components[1].components[1].options

\* the query the user typed in Command r
TypedQuery(r) == req[r].body.data.options[1].value

\* text t occurs in text s
Contains(s, t) ==
    \E i \in 1..(Len(s) + 1) :
        i + Len(t) - 1 <= Len(s) /\ SubSeq(s, i, i + Len(t) - 1) = t

\* C6: when the search returns N > 1 records, the follow-up has one
\* dropdown with exactly N options, the i-th valued with the decimal string
\* of the i-th record's catalog id (ids 10, 11, 12 give "10", "11", "12").
C6_OptionsAreCatalogIds ==
    \A r \in Req :
        (SearchReturned(r) /\ Len(Found(r)) > 1 /\ FollowedUp(r))
            => /\ Len(posts[r]) = 1
               /\ "components" \in DOMAIN FollowUp(r)
               /\ "embeds" \notin DOMAIN FollowUp(r)
               /\ Len(FollowUp(r).components) = 1
               /\ Len(FollowUp(r).components[1].components) = 1
               /\ Len(OptionsOf(FollowUp(r))) = Len(Found(r))
               /\ \A i \in 1..Len(Found(r)) :
                     /\ OptionsOf(FollowUp(r))[i].value = str(Found(r)[i].id)
                     /\ Found(r)[i].id = 10 => OptionsOf(FollowUp(r))[i].value = <<"1", "0">>
                     /\ Found(r)[i].id = 11 => OptionsOf(FollowUp(r))[i].value = <<"1", "1">>
                     /\ Found(r)[i].id = 12 => OptionsOf(FollowUp(r))[i].value = <<"1", "2">>

\* the scenario of the specification: "isekai" finds records 10, 11, 12 and
\* the follow-up sent has the options "10", "11", "12"
C6_Witness ==
    \E r \in Req :
        /\ SearchReturned(r) /\ task[r] = "done"
        /\ TypedQuery(r) = <<"isekai">>
        /\ Len(Found(r)) = 3
        /\ posts[r][1].outcome = "sent"
        /\ [i \in 1..3 |-> OptionsOf(FollowUp(r))[i].value]
              = <<<<"1", "0">>, <<"1", "1">>, <<"1", "2">>>>

\* the fetch of Command r's single record has returned a document with a
\* 'book' record
FetchedBook(r) ==
    /\ Len(calls[r]) = 2
    /\ calls[r][2].reply # Pending
    /\ calls[r][2].reply # Failure
    /\ "book" \in DOMAIN calls[r][2].reply.json

\* C7 as stated: when the search returns exactly one record, the follow-up
\* has exactly one display card and no dropdown, whatever the fetch gave.
C7_SingleMatchAlwaysCard ==
    \A r \in Req :
        (SearchReturned(r) /\ Len(Found(r)) = 1 /\ FollowedUp(r))
            => /\ "embeds" \in DOMAIN FollowUp(r)
               /\ Len(FollowUp(r).embeds) = 1
               /\ "components" \notin DOMAIN FollowUp(r)

\* C7 amended: when the search returns exactly one record, its id is
\* fetched and the one follow-up has no dropdown; it has exactly one display
\* card when the fetch returned a book record, and otherwise is only the
\* plain text "Sorry, I couldn't retrieve the details for that book.".
C7_SingleMatchCardIfFetched ==
    \A r \in Req :
        (SearchReturned(r) /\ Len(Found(r)) = 1 /\ FollowedUp(r))
            => /\ Len(posts[r]) = 1
               /\ "components" \notin DOMAIN FollowUp(r)
               /\ Len(calls[r]) = 2
               /\ calls[r][2].fn = "get_book_details"
               /\ calls[r][2].book_id = Found(r)[1].id
               /\ IF FetchedBook(r)
                  THEN /\ DOMAIN FollowUp(r) = {"embeds"}
                       /\ Len(FollowUp(r).embeds) = 1
                       /\ FollowUp(r).embeds[1].title = calls[r][2].reply.json.book.title
                  ELSE FollowUp(r) =
                         [content |-> <<"Sorry, I couldn't retrieve the details for that book.">>]

\* "slime" finds record 11 alone, its fetch succeeds and the follow-up is
\* the card of record 11
C7_Witness ==
    \E r \in Req :
        /\ SearchReturned(r) /\ Len(Found(r)) = 1 /\ FollowedUp(r)
        /\ FetchedBook(r)
        /\ Len(FollowUp(r).embeds) = 1
        /\ FollowUp(r).embeds[1].url = <<"https://ranobedb.org/book/", "1", "1">>

\* C8: when the search returns no record, also because it failed upstream,
\* the one follow-up is the "no matches" text with the typed query in it,
\* without display card and without dropdown.
C8_NoMatchNamesQuery ==
    \A r \in Req :
        (SearchReturned(r) /\ Len(Found(r)) = 0 /\ FollowedUp(r))
            => /\ Len(posts[r]) = 1
               /\ Len(calls[r]) = 1
               /\ DOMAIN FollowUp(r) = {"content"}
               /\ Contains(FollowUp(r).content, TypedQuery(r))
               /\ FollowUp(r).content =
                     <<"Sorry, I couldn't find any books matching **">>
                         \o TypedQuery(r) \o <<"**.">>

\* the search for "isekai" failed upstream and the follow-up says that
\* nothing matches "isekai"
C8_Witness ==
    \E r \in Req :
        /\ SearchReturned(r) /\ FollowedUp(r)
        /\ calls[r][1].reply = Failure
        /\ TypedQuery(r) = <<"isekai">>
        /\ FollowUp(r).content =
              <<"Sorry, I couldn't find any books matching **", "isekai", "**.">>

\* the value selected in ComponentSelect r
SelectedValue(r) == req[r].body.data.values[1]

\* the fetch of ComponentSelect r has returned a document with a 'book' record
SelectFetchedBook(r) ==
    /\ calls[r][1].reply # Pending
    /\ calls[r][1].reply # Failure
    /\ "book" \in DOMAIN calls[r][1].reply.json

\* C9: a ComponentSelect valued with the decimal string of an id makes one
\* fetch, of that id; when the fetch returns a record, the answer is the card
\* built from that record and addressed by the selected value.  The outcome
\* is a function of the request's own value and of its own fetch, in every
\* interleaving with other searches and selections.
C9_SelectRoundTrip ==
    \A r \in Req :
        WellFormedSelect(r)
            => /\ Len(calls[r]) = 1
               /\ calls[r][1].fn = "get_book_details"
               /\ str(calls[r][1].book_id) = SelectedValue(r)
               /\ task[r] = "none" /\ posts[r] = << >>
               /\ (hpc[r] = "done" /\ SelectFetchedBook(r))
                     => /\ "embeds" \in DOMAIN resp[r].json.data
                        /\ resp[r].json.data.embeds =
                              <<create_book_embed(calls[r][1].reply.json.book)>>
                        /\ resp[r].json.data.embeds[1].url =
                              <<"https://ranobedb.org/book/">> \o SelectedValue(r)
                        /\ resp[r].json.data.embeds[1].title =
                              calls[r][1].reply.json.book.title
               /\ (hpc[r] = "done" /\ ~SelectFetchedBook(r))
                     => "embeds" \notin DOMAIN resp[r].json.data

\* a search has offered "10" among its options, and a selection of "10" has
\* resolved to the card of record 10
C9_Witness ==
    \E r1, r2 \in Req :
        /\ SearchReturned(r1) /\ FollowedUp(r1) /\ Len(Found(r1)) > 1
        /\ OptionsOf(FollowUp(r1))[1].value = <<"1", "0">>
        /\ WellFormedSelect(r2) /\ hpc[r2] = "done"
        /\ SelectedValue(r2) = <<"1", "0">>
        /\ SelectFetchedBook(r2)
        /\ resp[r2].json.data.embeds[1].title = <<"V", "o", "l", " ", "1", "0">>

\* C10: the answer to a ComponentSelect carries the update-message tag and
\* an empty components list; it carries exactly one display card when the
\* fetch returned a record, and otherwise the plain-text failure notice and
\* no card.
C10_SelectUpdatesMessage ==
    \A r \in Req :
        (WellFormedSelect(r) /\ hpc[r] = "done")
            => /\ resp[r].status_code = 200
               /\ resp[r].json.type = 7
               /\ "components" \in DOMAIN resp[r].json.data
               /\ resp[r].json.data.components = << >>
               /\ IF SelectFetchedBook(r)
                  THEN /\ "embeds" \in DOMAIN resp[r].json.data
                       /\ Len(resp[r].json.data.embeds) = 1
                  ELSE /\ "embeds" \notin DOMAIN resp[r].json.data
                       /\ resp[r].json.data.content =
                             <<"Sorry, I couldn't retrieve details for that selection.">>

\* one selection answered with the failure notice after an upstream error,
\* another after a reply without a record
C10_Witness ==
    \E r1, r2 \in Req :
        /\ WellFormedSelect(r1) /\ hpc[r1] = "done"
        /\ WellFormedSelect(r2) /\ hpc[r2] = "done"
        /\ calls[r1][1].reply = Failure
        /\ calls[r2][1].reply = Json([message |-> <<"not found">>])
        /\ resp[r1].json.type = 7 /\ resp[r2].json.type = 7
        /\ resp[r1].json.data.components = << >>
        /\ resp[r2].json.data.components = << >>

\* the payload of authentic request r does not fit its kind: no kind at
\* all, a Command without a query option, a ComponentSelect without a
\* selected value or with one that is no catalog id
Malformed(r) ==
    /\ Authentic(r)
    /\ \/ "type" \notin DOMAIN req[r].body
       \/ /\ IsKind(r, APPLICATION_COMMAND)
          /\ "options" \notin DOMAIN req[r].body.data
       \/ /\ IsKind(r, MESSAGE_COMPONENT)
          /\ ~WellFormedSelect(r)

\* C11: an authentic request whose payload does not fit its kind is
\* answered 404 before dispatch: no task, no catalog call, no follow-up.
C11_MalformedIs404 ==
    \A r \in Req :
        Malformed(r)
            => /\ hpc[r] = "done"
               /\ resp[r] = Response(<< >>, 404)
               /\ task[r] = "none"
               /\ calls[r] = << >>
               /\ posts[r] = << >>

\* a catalog call of request r has failed upstream
CatalogFailed(r) == \E i \in 1..Len(calls[r]) : calls[r][i].reply = Failure

\* the next request to arrive, if the model has one left
NextArrival(r) == hpc[r] = "idle" /\ (r > 1 => hpc[r - 1] # "idle")

\* C12: a failed catalog call of an authentic Command or ComponentSelect
\* never gives an HTTP error status; the only trace of it is the "no
\* matches" or "couldn't retrieve" text, no task dies of it, and the handler
\* still accepts the next request whenever the event loop is free.
C12_CatalogFailureAbsorbed ==
    \A r \in Req :
        CatalogFailed(r)
            => /\ resp[r].status_code \in {0, 200}
               /\ hpc[r] = "done" => resp[r].status_code = 200
               /\ task[r] # "failed"
               /\ (IsKind(r, APPLICATION_COMMAND) /\ FollowedUp(r))
                     => /\ DOMAIN FollowUp(r) = {"content"}
                        /\ FollowUp(r).content \in
                              {<<"Sorry, I couldn't find any books matching **">>
                                   \o TypedQuery(r) \o <<"**.">>,
                               <<"Sorry, I couldn't retrieve the details for that book.">>}
               /\ (IsKind(r, MESSAGE_COMPONENT) /\ hpc[r] = "done")
                     => /\ resp[r].json.type = 7
                        /\ resp[r].json.data.content =
                              <<"Sorry, I couldn't retrieve details for that selection.">>
               /\ \A r2 \in Req :
                     (NextArrival(r2) /\ loopBusy = 0) => ENABLED Ping(r2)

\* the fetch of a single search result failed and its follow-up went out,
\* and a selection whose fetch failed was answered 200
C12_Witness ==
    \E r1, r2 \in Req :
        /\ r1 # r2
        /\ SearchReturned(r1) /\ task[r1] = "done"
        /\ Len(calls[r1]) = 2 /\ calls[r1][2].reply = Failure
        /\ FollowUp(r1).content =
              <<"Sorry, I couldn't retrieve the details for that book.">>
        /\ WellFormedSelect(r2) /\ hpc[r2] = "done"
        /\ calls[r2][1].reply = Failure
        /\ resp[r2].status_code = 200

\* C13: an authentic request whose kind is none of Ping, Command and
\* ComponentSelect is answered 404, and nothing else is done for it.
C13_UnknownKindIs404 ==
    \A r \in Req :
        (/\ Authentic(r)
         /\ "type" \in DOMAIN req[r].body
         /\ req[r].body.type \notin {1, 2, 3})
            => /\ hpc[r] = "done"
               /\ resp[r] = Response(<< >>, 404)
               /\ task[r] = "none"
               /\ calls[r] = << >>
               /\ posts[r] = << >>

\* an autocomplete interaction answered 404 while a Command's continuation
\* is under way
C13_Witness ==
    \E r1, r2 \in Req :
        /\ IsKind(r1, 4)
        /\ resp[r1].status_code = 404
        /\ IsKind(r2, APPLICATION_COMMAND) /\ task[r2] \in {"search", "fetch", "post"}

\* C15: a task that has ended has made exactly one follow-up send attempt.
C15_OneSendPerTask ==
    \A r \in Req : task[r] \in {"done", "failed"} => Len(posts[r]) = 1

\* C16: a request that fails verification, for whatever reason, gets the
\* one 401 response and has no other effect: no task, no catalog call, no
\* follow-up.
C16_GateBeforeRouting ==
    \A r \in Req :
        (Arrived(r) /\ ~Authentic(r))
            => /\ hpc[r] = "done"
               /\ resp[r] = Unauthorized401
               /\ task[r] = "none"
               /\ calls[r] = << >>
               /\ posts[r] = << >>

\* a Command signed by someone else and a ComponentSelect signed for another
\* timestamp, both answered with the same 401
C16_Witness ==
    \E r1, r2 \in Req :
        /\ hpc[r1] = "done" /\ hpc[r2] = "done"
        /\ DOMAIN req[r1].headers = {SigHeader, TsHeader}
        /\ DOMAIN req[r2].headers = {SigHeader, TsHeader}
        /\ req[r1].headers[SigHeader].signer = "attacker"
        /\ req[r2].headers[SigHeader].msg[1] # req[r2].headers[TsHeader]
        /\ "type" \in DOMAIN req[r1].body /\ req[r1].body.type = APPLICATION_COMMAND
        /\ "type" \in DOMAIN req[r2].body /\ req[r2].body.type = MESSAGE_COMPONENT
        /\ resp[r1] = Unauthorized401 /\ resp[r2] = resp[r1]

\* C18: while a continuation is in its search, its fetch or the delivery of
\* its follow-up, the handler can accept the next inbound request.
C18_HandlerNeverBlocked ==
    \A r, r2 \in Req :
        (task[r] \in {"search", "fetch", "post"} /\ NextArrival(r2)) => CanAccept(r2)

\* C19: every follow-up of request r goes to the callback URL made of the
\* application id and r's own token, with the static bot credential, and its
\* content comes from r's own query and r's own catalog replies; two
\* requests never share a callback URL.
C19_FollowUpIsOwn ==
    \A r \in Req :
        posts[r] # << >>
            => /\ SearchReturned(r)
               /\ \A i \in 1..Len(posts[r]) :
                     /\ posts[r][i].url =
                           <<"https://discord.com/api/v10/webhooks/", "app-id", "/">>
                               \o req[r].body.token
                     /\ posts[r][i].headers = [Authorization |-> <<"Bot ", "bot-token">>]
               /\ Len(Found(r)) = 0
                     => FollowUp(r).content =
                           <<"Sorry, I couldn't find any books matching **">>
                               \o TypedQuery(r) \o <<"**.">>
               /\ Len(Found(r)) > 1
                     => /\ Len(OptionsOf(FollowUp(r))) = Len(Found(r))
                        /\ \A i \in 1..Len(Found(r)) :
                              /\ OptionsOf(FollowUp(r))[i].value = str(Found(r)[i].id)
                              /\ OptionsOf(FollowUp(r))[i].label = Found(r)[i].title
               /\ (Len(Found(r)) = 1 /\ FetchedBook(r))
                     => FollowUp(r).embeds[1].title = calls[r][2].reply.json.book.title
               /\ \A r2 \in Req \ {r} :
                     posts[r2] # << >> => posts[r2][1].url # posts[r][1].url

\* two Commands in flight together, "zzz" and "isekai"; the first has
\* delivered to its own token that nothing matches "zzz", the second is
\* delivering its dropdown to its own token
C19_Witness ==
    \E r1, r2 \in Req :
        /\ r1 # r2
        /\ SearchReturned(r1) /\ SearchReturned(r2)
        /\ task[r1] = "done" /\ task[r2] = "post"
        /\ TypedQuery(r1) = <<"zzz">> /\ TypedQuery(r2) = <<"isekai">>
        /\ Contains(posts[r1][1].url, req[r1].body.token)
        /\ Contains(posts[r2][1].url, req[r2].body.token)
        /\ Contains(FollowUp(r1).content, <<"zzz">>)
        /\ Len(Found(r2)) = 3

\* C20: no catalog call is repeated.  A Command makes one search, of the
\* typed query, and one fetch only when the search returned exactly one
\* record, of that record's id; a ComponentSelect makes one fetch, of the
\* selected id; nothing else makes a catalog call.
C20_NoRetry ==
    \A r \in Req :
        /\ Len(calls[r]) <= 2
        /\ \A i \in 1..Len(calls[r]) :
              calls[r][i].fn = "search_ranobedb"
                  => i = 1 /\ IsKind(r, APPLICATION_COMMAND)
                           /\ calls[r][i].query = TypedQuery(r)
        /\ (IsKind(r, APPLICATION_COMMAND) /\ task[r] \in {"search", "fetch", "post", "done"})
              => calls[r][1].fn = "search_ranobedb"
        /\ Len(calls[r]) = 2
              => /\ SearchReturned(r)
                 /\ Len(Found(r)) = 1
                 /\ calls[r][2].fn = "get_book_details"
                 /\ calls[r][2].book_id = Found(r)[1].id
        /\ (SearchReturned(r) /\ FollowedUp(r))
              => Len(calls[r]) = (IF Len(Found(r)) = 1 THEN 2 ELSE 1)
        /\ WellFormedSelect(r)
              => /\ Len(calls[r]) = 1
                 /\ calls[r][1].fn = "get_book_details"
                 /\ str(calls[r][1].book_id) = SelectedValue(r)
        /\ (~IsKind(r, APPLICATION_COMMAND) /\ ~WellFormedSelect(r)) => calls[r] = << >>

\* a failed search ended with its one follow-up, and a single search result
\* whose one fetch failed ended with its one follow-up
C20_Witness ==
    \E r1, r2 \in Req :
        /\ SearchReturned(r1) /\ task[r1] = "done"
        /\ calls[r1] # << >> /\ Len(calls[r1]) = 1 /\ calls[r1][1].reply = Failure
        /\ SearchReturned(r2) /\ task[r2] = "done"
        /\ Len(calls[r2]) = 2 /\ calls[r2][2].reply = Failure

\* C17: under fair scheduling every continuation, once spawned, ends (its
\* send made, or a failure).
C17_ContinuationsEnd ==
    \A r \in Req : (task[r] = "scheduled") ~> (task[r] \in {"done", "failed"})

\* the card of book_data has been built
Built == embed # NoEmbed

\* the text before the trailing marker of the card's description
Shortened == SubSeq(embed.description, 1, Len(embed.description) - 1)

\* the description the card shows: a card without a description entry
\* shows the empty text
CardDescription ==
    IF "description" \in DOMAIN embed THEN embed.description ELSE << >>

\* C14: a description longer than 1024 characters comes out as a piece of
\* its first 1024 characters, at most 1024 long, followed by the marker
\* "..."; a description of at most 1024 characters comes out as it is (the
\* empty one as a card showing no description).  A record without a
\* description gives a card without one.
C14_DescriptionBudget ==
    Built =>
        IF "description" \in DOMAIN book_data
        THEN IF Len(book_data.description) > 1024
             THEN /\ embed.description[Len(embed.description)] = "..."
                  /\ Len(Shortened) <= 1024
                  /\ Contains(SubSeq(book_data.description, 1, 1024), Shortened)
             ELSE CardDescription = book_data.description
        ELSE "description" \notin DOMAIN embed

\* a description of 1025 characters whose 1024th is a blank: the card has
\* its first 1023 characters and the marker
C14_Witness ==
    /\ Built
    /\ "description" \in DOMAIN book_data
    /\ Len(book_data.description) = 1025
    /\ book_data.description[1] = "x"
    /\ book_data.description[1023] = "x"
    /\ book_data.description[1024] = " "
    /\ embed.description = SubSeq(book_data.description, 1, 1023) \o <<"...">>

====
